---- MODULE Spec2Model ----
(***************************************************************************)
(* Keystore 2.0 access control primitives (keystore2/src/permission.rs):   *)
(* the KeyPerm / KeystorePerm catalogs, KeyPermSet with its iterator, and  *)
(* the three decision functions check_keystore_permission,                 *)
(* check_grant_permission and check_key_permission.                        *)
(*                                                                         *)
(* One decision call is a small process: it is started from "idle" with    *)
(* its arguments, takes one step per call into the SELinux backend         *)
(* (getcon, KeystoreKeyBackend::new, lookup, check_access), and ends in    *)
(* "done" with its result.  The backend is outside the crate: its answers  *)
(* are chosen nondeterministically, an access check answering the same     *)
(* for the same (source, target, class, permission) during one call.       *)
(***************************************************************************)
EXTENDS Integers, Sequences, FiniteSets, TLC

----------------------------------------------------------------------------
(* Bounds of the model.                                                    *)

\* the codes decoded are -MaxCode..MaxCode, the powers of two and the extremes
MaxCode == 40
\* the sets compared hold the first MaxSetPerms permissions of the catalog
MaxSetPerms == 4
\* key_perm_set! is given lists of at most MaxListLen permissions
MaxListLen == 3
\* caller contexts are 1..MaxCallers
MaxCallers == 2
\* key namespaces are 0..MaxNamespace
MaxNamespace == 1
\* the first MaxPerms entries of the KeyPerm catalog are used as inputs
MaxPerms == 7

----------------------------------------------------------------------------
(* 32 bit integers.                                                        *)

MinI32 == (-2147483647) - 1

\* the low 31 bits of an i32, as a natural number
Low31(x) == IF x < 0 THEN (x + 2147483647) + 1 ELSE x

RECURSIVE AndNat(_, _)
AndNat(a, b) ==
    IF a = 0 \/ b = 0 THEN 0
    ELSE (a % 2) * (b % 2) + 2 * AndNat(a \div 2, b \div 2)

\* a & b on i32 (two's complement)
BitAnd(a, b) ==
    LET low == AndNat(Low31(a), Low31(b))
    IN  IF a < 0 /\ b < 0 THEN (low - 2147483647) - 1 ELSE low

RECURSIVE OrNat(_, _)
OrNat(a, b) ==
    IF a = 0 THEN b
    ELSE IF b = 0 THEN a
    ELSE (IF a % 2 = 1 \/ b % 2 = 1 THEN 1 ELSE 0) + 2 * OrNat(a \div 2, b \div 2)

\* a | b on i32 (two's complement)
BitOr(a, b) ==
    LET low == OrNat(Low31(a), Low31(b))
    IN  IF a < 0 \/ b < 0 THEN (low - 2147483647) - 1 ELSE low

\* 1 << pos on i32, for a shift of 0..31
Shl1(pos) == IF pos = 31 THEN MinI32 ELSE 2 ^ pos

----------------------------------------------------------------------------
(* The permission catalogs generated by implement_permission!.             *)

\* aidl::KeyPermission as KeyPerm
KeyPermElements ==
    << [name |-> "Delete",      val |-> 1,    selinux |-> "delete"],
       [name |-> "GenUniqueId", val |-> 2,    selinux |-> "gen_unique_id"],
       [name |-> "GetInfo",     val |-> 4,    selinux |-> "get_info"],
       [name |-> "Grant",       val |-> 8,    selinux |-> "grant"],
       [name |-> "List",        val |-> 16,   selinux |-> "list"],
       [name |-> "ManageBlob",  val |-> 32,   selinux |-> "manage_blob"],
       [name |-> "Rebind",      val |-> 64,   selinux |-> "rebind"],
       [name |-> "ReqForcedOp", val |-> 128,  selinux |-> "req_forced_op"],
       [name |-> "Update",      val |-> 256,  selinux |-> "update"],
       [name |-> "Use",         val |-> 512,  selinux |-> "use"],
       [name |-> "UseDevId",    val |-> 1024, selinux |-> "use_dev_id"] >>

\* KeystorePermission as KeystorePerm
KeystorePermElements ==
    << [name |-> "AddAuth",  val |-> 1,  selinux |-> "add_auth"],
       [name |-> "ClearNs",  val |-> 2,  selinux |-> "clear_ns"],
       [name |-> "GetState", val |-> 4,  selinux |-> "get_state"],
       [name |-> "Lock",     val |-> 8,  selinux |-> "lock"],
       [name |-> "Reset",    val |-> 16, selinux |-> "reset"],
       [name |-> "Unlock",   val |-> 32, selinux |-> "unlock"] >>

\* the default entry of both catalogs: (None = 0, none)
DefName == "None"
DefVal == 0
DefSelinux == "none"

\* From<i32> matching a code by the bits it shares with an entry's value
Perm_from_shared_bit(elements, p) ==
    IF p = DefVal THEN DefName
    ELSE IF \E i \in DOMAIN elements : BitAnd(p, elements[i].val) # 0
         THEN LET hits == {i \in DOMAIN elements : BitAnd(p, elements[i].val) # 0}
              IN  elements[CHOOSE i \in hits : \A j \in hits : i <= j].name
         ELSE DefName

\* impl From<i32> for $name
Perm_from(elements, p) ==
    IF p = DefVal THEN DefName
    ELSE IF \E i \in DOMAIN elements : elements[i].val = p
         THEN elements[CHOOSE i \in DOMAIN elements : elements[i].val = p].name
         ELSE DefName

\* to_selinux returning the identifier of the constructor (`use_` for use)
Perm_to_selinux_identifier(elements, v) ==
    IF v = DefName THEN DefSelinux
    ELSE LET n == elements[CHOOSE i \in DOMAIN elements : elements[i].name = v].selinux
         IN  IF n = "use" THEN "use_" ELSE n

\* $name::to_selinux
Perm_to_selinux(elements, v) ==
    IF v = DefName THEN DefSelinux
    ELSE elements[CHOOSE i \in DOMAIN elements : elements[i].name = v].selinux

\* the numeric value of the wrapped enum variant (`p.0 as i32`)
Perm_as_i32(elements, v) ==
    IF v = DefName THEN DefVal
    ELSE elements[CHOOSE i \in DOMAIN elements : elements[i].name = v].val

KeyPerm_from(p) == Perm_from(KeyPermElements, p)
KeyPerm_to_selinux(v) == Perm_to_selinux(KeyPermElements, v)
KeyPerm_as_i32(v) == Perm_as_i32(KeyPermElements, v)

KeystorePerm_from(p) == Perm_from(KeystorePermElements, p)
KeystorePerm_to_selinux(v) == Perm_to_selinux(KeystorePermElements, v)
KeystorePerm_as_i32(v) == Perm_as_i32(KeystorePermElements, v)

\* the variants of the two wrapped enums
KeyPerms == {DefName} \cup {KeyPermElements[i].name : i \in DOMAIN KeyPermElements}
KeystorePerms ==
    {DefName} \cup {KeystorePermElements[i].name : i \in DOMAIN KeystorePermElements}

----------------------------------------------------------------------------
(* KeyPermSet(i32) and its iterator.                                       *)

\* impl From<KeyPerm> for KeyPermSet
KeyPermSet_from(p) == KeyPerm_as_i32(p)

\* includes testing for a shared bit instead of containment
includes_overlap(self, other) == BitAnd(self, other) # 0

\* includes with the operands of the comparison exchanged
includes_swapped(self, other) == BitAnd(self, other) = self

\* KeyPermSet::includes
includes(self, other) == BitAnd(self, other) = other

\* key_perm_set! adding the values instead of or-ing them
RECURSIVE key_perm_set_sum(_)
key_perm_set_sum(list) ==
    IF list = << >> THEN 0
    ELSE IF Len(list) = 1 THEN KeyPerm_as_i32(list[1])
    ELSE key_perm_set_sum(SubSeq(list, 1, Len(list) - 1))
            + KeyPerm_as_i32(list[Len(list)])

\* key_perm_set![...] applied to a sequence of KeyPerm values
RECURSIVE key_perm_set(_)
key_perm_set(list) ==
    IF list = << >> THEN 0
    ELSE IF Len(list) = 1 THEN KeyPerm_as_i32(list[1])
    ELSE BitOr(key_perm_set(SubSeq(list, 1, Len(list) - 1)),
               KeyPerm_as_i32(list[Len(list)]))

\* perm::IntoIter::new and IntoIterator::into_iter
IntoIter_new(v) == [vec |-> v, pos |-> 0]

\* IntoIter::next scanning from the highest bit down
RECURSIVE IntoIter_next_descending(_)
IntoIter_next_descending(it) ==
    IF it.pos = 32 THEN [item |-> << >>, it |-> it]
    ELSE LET p == BitAnd(it.vec, Shl1(31 - it.pos))
             advanced == [it EXCEPT !.pos = @ + 1]
         IN  IF p # 0 THEN [item |-> <<KeyPerm_from(p)>>, it |-> advanced]
             ELSE IntoIter_next_descending(advanced)

\* IntoIter::next rewinding the position when the scan is over
RECURSIVE IntoIter_next_rewinding(_)
IntoIter_next_rewinding(it) ==
    IF it.pos = 32 THEN [item |-> << >>, it |-> [it EXCEPT !.pos = 0]]
    ELSE LET p == BitAnd(it.vec, Shl1(it.pos))
             advanced == [it EXCEPT !.pos = @ + 1]
         IN  IF p # 0 THEN [item |-> <<KeyPerm_from(p)>>, it |-> advanced]
             ELSE IntoIter_next_rewinding(advanced)

\* IntoIter::next with the position advanced before the bit is tested
RECURSIVE IntoIter_next_preincrement(_)
IntoIter_next_preincrement(it) ==
    IF it.pos = 32 THEN [item |-> << >>, it |-> it]
    ELSE LET advanced == [it EXCEPT !.pos = @ + 1]
             p == IF advanced.pos = 32 THEN 0
                  ELSE BitAnd(it.vec, Shl1(advanced.pos))
         IN  IF p # 0 THEN [item |-> <<KeyPerm_from(p)>>, it |-> advanced]
             ELSE IntoIter_next_preincrement(advanced)

\* perm::IntoIter::next: the item (<< >> for None, <<p>> for Some(p)) and
\* the iterator after the call
RECURSIVE IntoIter_next(_)
IntoIter_next(it) ==
    IF it.pos = 32 THEN [item |-> << >>, it |-> it]
    ELSE LET p == BitAnd(it.vec, Shl1(it.pos))
             advanced == [it EXCEPT !.pos = @ + 1]
         IN  IF p # 0 THEN [item |-> <<KeyPerm_from(p)>>, it |-> advanced]
             ELSE IntoIter_next(advanced)

----------------------------------------------------------------------------
(* Inputs of the decision functions.                                       *)

\* aidl::Domain
Domains == {"App", "Grant", "SELinux", "Blob", "KeyId"}

Namespaces == 0 .. MaxNamespace

\* aidl::KeyDescriptor, the fields the decision functions read
KeyDescriptors == [domain : Domains, namespace_ : Namespaces]

\* selinux::Context values: those of the callers, the one getcon returns and
\* the ones the keystore key backend looks up for a namespace
NoContext == [kind |-> "none", id |-> 0]
CallerContexts == [kind : {"caller"}, id : 1 .. MaxCallers]
OwnContext == [kind |-> "keystore", id |-> 0]
NamespaceContext(ns) == [kind |-> "keystore_key", id |-> ns]

\* the KeyPerm values used as inputs
InputKeyPerms ==
    {DefName} \cup {KeyPermElements[i].name :
                       i \in {j \in DOMAIN KeyPermElements : j <= MaxPerms}}

\* the KeyPermSet values key_perm_set! builds from the input permissions
RECURSIVE UnionOfCodes(_)
UnionOfCodes(S) ==
    IF S = {} THEN 0
    ELSE LET v == CHOOSE x \in S : TRUE
         IN  BitOr(KeyPerm_as_i32(v), UnionOfCodes(S \ {v}))

InputKeyPermSets == {UnionOfCodes(S) : S \in SUBSET InputKeyPerms}

\* Option<KeyPermSet>: << >> is None, <<v>> is Some(v)
InputAccessVectors == {<< >>} \cup {<<v>> : v \in InputKeyPermSets}

----------------------------------------------------------------------------
(* State.                                                                  *)

VARIABLES
    pc,              \* position of the running call: "idle", a step, "done"
    op,              \* the decision function that is running
    caller_ctx,      \* argument caller_ctx
    perm,            \* argument perm (KeystorePerm or KeyPerm)
    access_vec,      \* argument access_vec of check_grant_permission
    key,             \* argument key
    access_vector,   \* argument access_vector of check_key_permission
    target_context,  \* local target_context / tctx
    iter,            \* the iterator of the for loop of check_grant_permission
    policy,          \* the backend's answers to access checks so far
    calls,           \* the calls made into the backend, in order
    result,          \* the value returned: "Allow" is Ok(()), else the error
    tid,             \* the thread whose call the variables above hold
    parked,          \* the calls of the other threads, each as it was left
    conv,            \* a conversion between codes, permissions and names
    sets,            \* KeyPermSet values and the results of includes on them
    walk             \* an iteration over a KeyPermSet built by key_perm_set!

vars == <<pc, op, caller_ctx, perm, access_vec, key, access_vector,
          target_context, iter, policy, calls, result,
          tid, parked, conv, sets, walk>>

args == <<op, caller_ctx, perm, access_vec, key, access_vector>>

\* the state of the decision call of the running thread
call_vars == <<pc, op, caller_ctx, perm, access_vec, key, access_vector,
               target_context, iter, policy, calls, result>>

\* the state outside the decision call of the running thread
aside == <<tid, parked, conv, sets, walk>>

NoKey == [domain |-> "App", namespace_ |-> 0]

\* no decision call is running
NoCall ==
    /\ pc = "idle"
    /\ op = "none"
    /\ caller_ctx = NoContext
    /\ perm = DefName
    /\ access_vec = 0
    /\ key = NoKey
    /\ access_vector = << >>
    /\ target_context = NoContext
    /\ iter = IntoIter_new(0)
    /\ policy = << >>
    /\ calls = << >>
    /\ result = "Pending"

\* one thread, and nothing else being evaluated
NoConv == [pc |-> "idle"]
NoSets == [pc |-> "idle"]
NoWalk == [pc |-> "idle"]
OneThread == tid = 1 /\ parked = << >>

Init ==
    /\ NoCall
    /\ OneThread
    /\ conv = NoConv
    /\ sets = NoSets
    /\ walk = NoWalk

----------------------------------------------------------------------------
(* The SELinux backend (keystore2_selinux).                                *)

\* what selinux::check_access answers
Verdicts == {"Allow", "Deny", "BackendError"}

\* every failed access check reported as a denial
with_context_perm(v) == "PermissionDenied"

\* the root cause of the error a failed check_access is returned with:
\* the anyhow context added by the caller keeps it
with_context(v) == IF v = "Deny" THEN "PermissionDenied" ELSE "BackendError"

Call(fn, source, target, tclass, name, ret) ==
    [fn |-> fn, source |-> source, target |-> target, tclass |-> tclass,
     name |-> name, ret |-> ret]

\* selinux::check_access(source, target, tclass, name) answering v
check_access(source, target, tclass, name, v) ==
    LET q == <<source, target, tclass, name>>
    IN  /\ v \in Verdicts
        /\ IF q \in DOMAIN policy
           THEN v = policy[q] /\ UNCHANGED policy
           ELSE policy' = (q :> v) @@ policy
        /\ calls' = Append(calls, Call("check_access", source, target, tclass, name, v))

\* getcon() returning Ok (the own context) or Err
getcon(ok) ==
    calls' = Append(calls, Call("getcon", NoContext, NoContext, "", "",
                                IF ok THEN "Ok" ELSE "Err"))

\* KeystoreKeyBackend::new() returning Ok or Err
KeystoreKeyBackend_new(ok) ==
    calls' = Append(calls, Call("new", NoContext, NoContext, "", "",
                                IF ok THEN "Ok" ELSE "Err"))

\* backend.lookup(namespace) returning Ok (the namespace's context) or Err
lookup(ns, ok) ==
    calls' = Append(calls, Call("lookup", NoContext, NamespaceContext(ns), "", "",
                                IF ok THEN "Ok" ELSE "Err"))

Finish(r) ==
    /\ pc' = "done"
    /\ result' = r

----------------------------------------------------------------------------
(* check_keystore_permission                                               *)

Call_check_keystore_permission ==
    /\ pc = "idle"
    /\ \E c \in CallerContexts, p \in KeystorePerms :
          /\ op' = "check_keystore_permission"
          /\ caller_ctx' = c
          /\ perm' = p
    /\ pc' = "ks_getcon"
    /\ UNCHANGED <<access_vec, key, access_vector, target_context, iter,
                   policy, calls, result>>
    /\ UNCHANGED aside

\* let target_context = getcon().context(..)?;
check_keystore_permission_getcon ==
    /\ pc = "ks_getcon"
    /\ \E ok \in BOOLEAN :
          /\ getcon(ok)
          /\ IF ok
             THEN /\ target_context' = OwnContext
                  /\ pc' = "ks_check"
                  /\ UNCHANGED result
             ELSE /\ Finish("BackendError")
                  /\ UNCHANGED target_context
    /\ UNCHANGED <<args, iter, policy>>
    /\ UNCHANGED aside

\* the service permission checked in the class of the key permissions
check_keystore_permission_check_key_class ==
    /\ pc = "ks_check"
    /\ \E v \in Verdicts :
          /\ check_access(caller_ctx, target_context, "keystore2_key",
                          KeystorePerm_to_selinux(perm), v)
          /\ Finish(IF v = "Allow" THEN "Allow" ELSE with_context(v))
    /\ UNCHANGED <<args, target_context, iter>>
    /\ UNCHANGED aside

\* selinux::check_access(caller_ctx, &target_context, "keystore2", perm.to_selinux())
check_keystore_permission_check ==
    /\ pc = "ks_check"
    /\ \E v \in Verdicts :
          /\ check_access(caller_ctx, target_context, "keystore2",
                          KeystorePerm_to_selinux(perm), v)
          /\ Finish(IF v = "Allow" THEN "Allow" ELSE with_context(v))
    /\ UNCHANGED <<args, target_context, iter>>
    /\ UNCHANGED aside

----------------------------------------------------------------------------
(* check_grant_permission                                                  *)

\* the match with Domain::Blob resolved like Domain::SELinux
grant_target_branch_blob(domain) ==
    CASE domain = "App"                 -> "getcon"
      [] domain \in {"SELinux", "Blob"} -> "lookup"
      [] OTHER                          -> "sys"

\* the match with Domain::KeyId given the default keystore context
grant_target_branch_keyid(domain) ==
    CASE domain \in {"App", "KeyId"} -> "getcon"
      [] domain = "SELinux"          -> "lookup"
      [] OTHER                       -> "sys"

\* the arms of `match key.domain` that yield the target context
grant_target_branch(domain) ==
    CASE domain = "App"     -> "getcon"
      [] domain = "SELinux" -> "lookup"
      [] OTHER              -> "sys"

Call_check_grant_permission ==
    /\ pc = "idle"
    /\ \E c \in CallerContexts, av \in InputKeyPermSets, k \in KeyDescriptors :
          /\ op' = "check_grant_permission"
          /\ caller_ctx' = c
          /\ access_vec' = av
          /\ key' = k
    /\ pc' = "gr_match"
    /\ UNCHANGED <<perm, access_vector, target_context, iter, policy, calls, result>>
    /\ UNCHANGED aside

\* Domain::App => getcon().context(..)?
check_grant_permission_getcon ==
    /\ pc = "gr_match"
    /\ grant_target_branch(key.domain) = "getcon"
    /\ \E ok \in BOOLEAN :
          /\ getcon(ok)
          /\ IF ok
             THEN /\ target_context' = OwnContext
                  /\ pc' = "gr_grant"
                  /\ UNCHANGED result
             ELSE /\ Finish("BackendError")
                  /\ UNCHANGED target_context
    /\ UNCHANGED <<args, iter, policy>>
    /\ UNCHANGED aside

\* Domain::SELinux => KeystoreKeyBackend::new().context(..)?
check_grant_permission_new ==
    /\ pc = "gr_match"
    /\ grant_target_branch(key.domain) = "lookup"
    /\ \E ok \in BOOLEAN :
          /\ KeystoreKeyBackend_new(ok)
          /\ IF ok
             THEN pc' = "gr_lookup" /\ UNCHANGED result
             ELSE Finish("BackendError")
    /\ UNCHANGED <<args, target_context, iter, policy>>
    /\ UNCHANGED aside

\* backend.lookup(format!("{}", key.namespace_).as_str()).context(..)?
check_grant_permission_lookup ==
    /\ pc = "gr_lookup"
    /\ \E ok \in BOOLEAN :
          /\ lookup(key.namespace_, ok)
          /\ IF ok
             THEN /\ target_context' = NamespaceContext(key.namespace_)
                  /\ pc' = "gr_grant"
                  /\ UNCHANGED result
             ELSE /\ Finish("BackendError")
                  /\ UNCHANGED target_context
    /\ UNCHANGED <<args, iter, policy>>
    /\ UNCHANGED aside

\* _ => return Err(KsError::sys()).context(..)
check_grant_permission_sys ==
    /\ pc = "gr_match"
    /\ grant_target_branch(key.domain) = "sys"
    /\ Finish("SystemError")
    /\ UNCHANGED <<args, target_context, iter, policy, calls>>
    /\ UNCHANGED aside

\* the grant check without the test that refuses to grant the grant permission
check_grant_permission_grant_unrefused ==
    /\ pc = "gr_grant"
    /\ \E v \in Verdicts :
          /\ check_access(caller_ctx, target_context, "keystore2_key", "grant", v)
          /\ IF v # "Allow"
             THEN Finish(with_context(v)) /\ UNCHANGED iter
             ELSE /\ iter' = IntoIter_new(access_vec)
                  /\ pc' = "gr_loop"
                  /\ UNCHANGED result
    /\ UNCHANGED <<args, target_context>>
    /\ UNCHANGED aside

\* selinux::check_access(caller_ctx, &target_context, "keystore2_key", "grant")
\*     .context(..)?;
\* if access_vec.includes(KeyPerm::grant()) { return Err(selinux::Error::perm()) }
check_grant_permission_grant ==
    /\ pc = "gr_grant"
    /\ \E v \in Verdicts :
          /\ check_access(caller_ctx, target_context, "keystore2_key", "grant", v)
          /\ IF v # "Allow"
             THEN Finish(with_context(v)) /\ UNCHANGED iter
             ELSE IF includes(access_vec, KeyPermSet_from("Grant"))
             THEN Finish("PermissionDenied") /\ UNCHANGED iter
             ELSE /\ iter' = IntoIter_new(access_vec)
                  /\ pc' = "gr_loop"
                  /\ UNCHANGED result
    /\ UNCHANGED <<args, target_context>>
    /\ UNCHANGED aside

\* the loop going on after a failed check and returning the last error at
\* its end
check_grant_permission_loop_collect ==
    /\ pc = "gr_loop"
    /\ LET n == IntoIter_next(iter)
       IN  IF n.item = << >>
           THEN /\ Finish(IF result = "Pending" THEN "Allow" ELSE result)
                /\ iter' = n.it
                /\ UNCHANGED <<policy, calls>>
           ELSE \E v \in Verdicts :
                   /\ check_access(caller_ctx, target_context, "keystore2_key",
                                   KeyPerm_to_selinux(n.item[1]), v)
                   /\ iter' = n.it
                   /\ pc' = pc
                   /\ result' = IF v = "Allow" THEN result ELSE with_context(v)
    /\ UNCHANGED <<args, target_context>>
    /\ UNCHANGED aside

\* for p in access_vec.into_iter() { selinux::check_access(.., p.to_selinux())
\*     .context(..)? }  Ok(())
check_grant_permission_loop ==
    /\ pc = "gr_loop"
    /\ LET n == IntoIter_next(iter)
       IN  IF n.item = << >>
           THEN /\ Finish("Allow")
                /\ iter' = n.it
                /\ UNCHANGED <<policy, calls>>
           ELSE \E v \in Verdicts :
                   /\ check_access(caller_ctx, target_context, "keystore2_key",
                                   KeyPerm_to_selinux(n.item[1]), v)
                   /\ iter' = n.it
                   /\ IF v = "Allow"
                      THEN UNCHANGED <<pc, result>>
                      ELSE Finish(with_context(v))
    /\ UNCHANGED <<args, target_context>>
    /\ UNCHANGED aside

----------------------------------------------------------------------------
(* check_key_permission                                                    *)

\* the match with Domain::Blob handled by the Domain::SELinux arm
key_target_branch_blob(domain) ==
    CASE domain = "App"                 -> "getcon"
      [] domain \in {"SELinux", "Blob"} -> "lookup"
      [] domain = "Grant"               -> "grant"
      [] domain = "KeyId"               -> "keyid"

\* the match with Domain::KeyId handled by the Domain::App arm
key_target_branch_keyid(domain) ==
    CASE domain \in {"App", "KeyId"} -> "getcon"
      [] domain = "SELinux"          -> "lookup"
      [] domain = "Grant"            -> "grant"
      [] domain = "Blob"             -> "blob"

\* the arms of `match key.domain`
key_target_branch(domain) ==
    CASE domain = "App"     -> "getcon"
      [] domain = "SELinux" -> "lookup"
      [] domain = "Grant"   -> "grant"
      [] domain = "KeyId"   -> "keyid"
      [] domain = "Blob"    -> "blob"

Call_check_key_permission ==
    /\ pc = "idle"
    /\ \E c \in CallerContexts, p \in InputKeyPerms, k \in KeyDescriptors,
          avo \in InputAccessVectors :
          /\ op' = "check_key_permission"
          /\ caller_ctx' = c
          /\ perm' = p
          /\ key' = k
          /\ access_vector' = avo
    /\ pc' = "kp_match"
    /\ UNCHANGED <<access_vec, target_context, iter, policy, calls, result>>
    /\ UNCHANGED aside

\* Domain::App => getcon().context(..)?
check_key_permission_getcon ==
    /\ pc = "kp_match"
    /\ key_target_branch(key.domain) = "getcon"
    /\ \E ok \in BOOLEAN :
          /\ getcon(ok)
          /\ IF ok
             THEN /\ target_context' = OwnContext
                  /\ pc' = "kp_check"
                  /\ UNCHANGED result
             ELSE /\ Finish("BackendError")
                  /\ UNCHANGED target_context
    /\ UNCHANGED <<args, iter, policy>>
    /\ UNCHANGED aside

\* Domain::SELinux and Domain::Blob: KeystoreKeyBackend::new().context(..)?
check_key_permission_new ==
    /\ pc = "kp_match"
    /\ key_target_branch(key.domain) \in {"lookup", "blob"}
    /\ \E ok \in BOOLEAN :
          /\ KeystoreKeyBackend_new(ok)
          /\ IF ok
             THEN pc' = "kp_lookup" /\ UNCHANGED result
             ELSE Finish("BackendError")
    /\ UNCHANGED <<args, target_context, iter, policy>>
    /\ UNCHANGED aside

\* the lookup made through a backend kept open for all threads, which
\* answers with the context another thread's call resolved
check_key_permission_lookup_shared ==
    /\ pc = "kp_lookup"
    /\ \E ok \in BOOLEAN :
          /\ lookup(key.namespace_, ok)
          /\ IF ok
             THEN /\ target_context' =
                        IF \E t \in DOMAIN parked : parked[t].target_context # NoContext
                        THEN parked[CHOOSE t \in DOMAIN parked :
                                       parked[t].target_context # NoContext].target_context
                        ELSE NamespaceContext(key.namespace_)
                  /\ pc' = IF key_target_branch(key.domain) = "blob"
                           THEN "kp_manage_blob" ELSE "kp_check"
                  /\ UNCHANGED result
             ELSE /\ Finish("BackendError")
                  /\ UNCHANGED target_context
    /\ UNCHANGED <<args, iter, policy>>
    /\ UNCHANGED aside

\* Domain::SELinux and Domain::Blob:
\* backend.lookup(format!("{}", key.namespace_).as_str()).context(..)?
check_key_permission_lookup ==
    /\ pc = "kp_lookup"
    /\ \E ok \in BOOLEAN :
          /\ lookup(key.namespace_, ok)
          /\ IF ok
             THEN /\ target_context' = NamespaceContext(key.namespace_)
                  /\ pc' = IF key_target_branch(key.domain) = "blob"
                           THEN "kp_manage_blob" ELSE "kp_check"
                  /\ UNCHANGED result
             ELSE /\ Finish("BackendError")
                  /\ UNCHANGED target_context
    /\ UNCHANGED <<args, iter, policy>>
    /\ UNCHANGED aside

\* Domain::Grant => match access_vector { Some(pv) => .., None => .. }
check_key_permission_grant ==
    /\ pc = "kp_match"
    /\ key_target_branch(key.domain) = "grant"
    /\ IF access_vector = << >>
       THEN Finish("SystemError")
       ELSE IF includes(access_vector[1], KeyPermSet_from(perm))
       THEN Finish("Allow")
       ELSE Finish("PermissionDenied")
    /\ UNCHANGED <<args, target_context, iter, policy, calls>>
    /\ UNCHANGED aside

\* Domain::KeyId => return Err(KsError::sys()).context(..)
check_key_permission_keyid ==
    /\ pc = "kp_match"
    /\ key_target_branch(key.domain) = "keyid"
    /\ Finish("SystemError")
    /\ UNCHANGED <<args, target_context, iter, policy, calls>>
    /\ UNCHANGED aside

\* Domain::Blob: selinux::check_access(caller_ctx, &tctx, "keystore2_key",
\*                   KeyPerm::manage_blob().to_selinux())?;
check_key_permission_manage_blob ==
    /\ pc = "kp_manage_blob"
    /\ \E v \in Verdicts :
          /\ check_access(caller_ctx, target_context, "keystore2_key",
                          KeyPerm_to_selinux("ManageBlob"), v)
          /\ IF v = "Allow"
             THEN pc' = "kp_check" /\ UNCHANGED result
             ELSE Finish(with_context(v))
    /\ UNCHANGED <<args, target_context, iter>>
    /\ UNCHANGED aside

\* the final check skipped when a supplied access vector has the permission
check_key_permission_check_vector ==
    /\ pc = "kp_check"
    /\ IF access_vector # << >> /\ includes(access_vector[1], KeyPermSet_from(perm))
       THEN Finish("Allow") /\ UNCHANGED <<policy, calls>>
       ELSE \E v \in Verdicts :
               /\ check_access(caller_ctx, target_context, "keystore2_key",
                               KeyPerm_to_selinux(perm), v)
               /\ Finish(IF v = "Allow" THEN "Allow" ELSE with_context(v))
    /\ UNCHANGED <<args, target_context, iter>>
    /\ UNCHANGED aside

\* selinux::check_access(caller_ctx, &target_context, "keystore2_key", perm.to_selinux())
check_key_permission_check ==
    /\ pc = "kp_check"
    /\ \E v \in Verdicts :
          /\ check_access(caller_ctx, target_context, "keystore2_key",
                          KeyPerm_to_selinux(perm), v)
          /\ Finish(IF v = "Allow" THEN "Allow" ELSE with_context(v))
    /\ UNCHANGED <<args, target_context, iter>>
    /\ UNCHANGED aside

----------------------------------------------------------------------------
(* The call returns: its arguments and locals are dropped.                 *)

Return ==
    /\ pc = "done"
    /\ pc' = "idle"
    /\ op' = "none"
    /\ caller_ctx' = NoContext
    /\ perm' = DefName
    /\ access_vec' = 0
    /\ key' = NoKey
    /\ access_vector' = << >>
    /\ target_context' = NoContext
    /\ iter' = IntoIter_new(0)
    /\ policy' = << >>
    /\ calls' = << >>
    /\ result' = "Pending"
    /\ UNCHANGED aside

Next ==
    \/ Call_check_keystore_permission
    \/ check_keystore_permission_getcon
    \/ check_keystore_permission_check
    \/ Call_check_grant_permission
    \/ check_grant_permission_getcon
    \/ check_grant_permission_new
    \/ check_grant_permission_lookup
    \/ check_grant_permission_sys
    \/ check_grant_permission_grant
    \/ check_grant_permission_loop
    \/ Call_check_key_permission
    \/ check_key_permission_getcon
    \/ check_key_permission_new
    \/ check_key_permission_lookup
    \/ check_key_permission_grant
    \/ check_key_permission_keyid
    \/ check_key_permission_manage_blob
    \/ check_key_permission_check
    \/ Return

Spec == Init /\ [][Next]_vars

----------------------------------------------------------------------------
(* Two request-handling threads, each making one decision call; their      *)
(* steps interleave.  The call of the running thread is in the call        *)
(* variables, the other thread's call is parked as it was left.  The       *)
(* backend's policy is the same for both and stays as it is.               *)

Threads == {1, 2}

\* the call of the running thread, as a record
ThisCall ==
    [pc |-> pc, op |-> op, caller_ctx |-> caller_ctx, perm |-> perm,
     access_vec |-> access_vec, key |-> key, access_vector |-> access_vector,
     target_context |-> target_context, iter |-> iter, calls |-> calls,
     result |-> result]

\* a thread that has not called yet
FreshCall ==
    [pc |-> "idle", op |-> "none", caller_ctx |-> NoContext, perm |-> DefName,
     access_vec |-> 0, key |-> NoKey, access_vector |-> << >>,
     target_context |-> NoContext, iter |-> IntoIter_new(0), calls |-> << >>,
     result |-> "Pending"]

\* the decision calls the threads make
ThreadCalls ==
    {[FreshCall EXCEPT !.pc = "ks_getcon", !.op = "check_keystore_permission",
                       !.caller_ctx = c, !.perm = p] :
        c \in {1, 2}, p \in {"AddAuth", "Lock"}}
    \cup
    {[FreshCall EXCEPT !.pc = "gr_match", !.op = "check_grant_permission",
                       !.caller_ctx = c, !.access_vec = av, !.key = k] :
        c \in {1, 2}, av \in {0, 1, 5, 9},
        k \in {[domain |-> "App", namespace_ |-> 0],
               [domain |-> "SELinux", namespace_ |-> 1],
               [domain |-> "Blob", namespace_ |-> 1]}}
    \cup
    {[FreshCall EXCEPT !.pc = "kp_match", !.op = "check_key_permission",
                       !.caller_ctx = c, !.perm = p, !.key = k,
                       !.access_vector = avo] :
        c \in {1, 2}, p \in {"Delete", "GetInfo"},
        k \in {[domain |-> "App", namespace_ |-> 0],
               [domain |-> "SELinux", namespace_ |-> 0],
               [domain |-> "SELinux", namespace_ |-> 1],
               [domain |-> "Blob", namespace_ |-> 1],
               [domain |-> "Grant", namespace_ |-> 0],
               [domain |-> "KeyId", namespace_ |-> 0]},
        avo \in {<< >>, <<1>>}}

\* the running thread enters its decision call
Thread_call ==
    /\ pc = "idle"
    /\ \E c \in ThreadCalls :
          /\ pc' = c.pc
          /\ op' = c.op
          /\ caller_ctx' = c.caller_ctx
          /\ perm' = c.perm
          /\ access_vec' = c.access_vec
          /\ key' = c.key
          /\ access_vector' = c.access_vector
    /\ UNCHANGED <<target_context, iter, policy, calls, result>>
    /\ UNCHANGED aside

\* the scheduler runs another thread: the running call is parked as it is
\* and the other thread's call is taken up where it was left
Switch ==
    /\ \E t \in Threads \ {tid} :
          LET c == IF t \in DOMAIN parked THEN parked[t] ELSE FreshCall
          IN  /\ tid' = t
              /\ parked' = [u \in (DOMAIN parked \cup {tid}) \ {t} |->
                               IF u = tid THEN ThisCall ELSE parked[u]]
              /\ pc' = c.pc
              /\ op' = c.op
              /\ caller_ctx' = c.caller_ctx
              /\ perm' = c.perm
              /\ access_vec' = c.access_vec
              /\ key' = c.key
              /\ access_vector' = c.access_vector
              /\ target_context' = c.target_context
              /\ iter' = c.iter
              /\ calls' = c.calls
              /\ result' = c.result
    /\ UNCHANGED <<policy, conv, sets, walk>>

NextThreads ==
    \/ Thread_call
    \/ Switch
    \/ check_keystore_permission_getcon
    \/ check_keystore_permission_check
    \/ check_grant_permission_getcon
    \/ check_grant_permission_new
    \/ check_grant_permission_lookup
    \/ check_grant_permission_sys
    \/ check_grant_permission_grant
    \/ check_grant_permission_loop
    \/ check_key_permission_getcon
    \/ check_key_permission_new
    \/ check_key_permission_lookup
    \/ check_key_permission_grant
    \/ check_key_permission_keyid
    \/ check_key_permission_manage_blob
    \/ check_key_permission_check

SpecThreads == Init /\ [][NextThreads]_vars

----------------------------------------------------------------------------
(* The catalogs on their own: decoding a code, and encoding a permission   *)
(* and decoding it again.                                                  *)

MaxI32 == 2147483647

\* the i32 codes decoded
Codes ==
    (-MaxCode .. MaxCode)
        \cup {2 ^ i : i \in 0 .. 30} \cup {-(2 ^ i) : i \in 0 .. 30}
        \cup {MinI32, MaxI32}

\* KeyPerm::from(c) and the name of the result
Decode_KeyPerm ==
    /\ conv.pc = "idle"
    /\ \E c \in Codes :
          conv' = [pc |-> "decoded", catalog |-> "KeyPerm", code |-> c,
                   perm |-> KeyPerm_from(c),
                   name |-> KeyPerm_to_selinux(KeyPerm_from(c))]
    /\ UNCHANGED <<call_vars, tid, parked, sets, walk>>

\* KeystorePerm::from(c) and the name of the result
Decode_KeystorePerm ==
    /\ conv.pc = "idle"
    /\ \E c \in Codes :
          conv' = [pc |-> "decoded", catalog |-> "KeystorePerm", code |-> c,
                   perm |-> KeystorePerm_from(c),
                   name |-> KeystorePerm_to_selinux(KeystorePerm_from(c))]
    /\ UNCHANGED <<call_vars, tid, parked, sets, walk>>

\* two KeyPerm values: their numeric values and names, and the first one's
\* value converted back, `(<$t>::$element_name as i32).into()`
Encode_KeyPerm ==
    /\ conv.pc = "idle"
    /\ \E p \in KeyPerms, q \in KeyPerms :
          conv' = [pc |-> "encoded", catalog |-> "KeyPerm", p |-> p, q |-> q,
                   code_p |-> KeyPerm_as_i32(p), code_q |-> KeyPerm_as_i32(q),
                   name_p |-> KeyPerm_to_selinux(p), name_q |-> KeyPerm_to_selinux(q),
                   back |-> KeyPerm_from(KeyPerm_as_i32(p))]
    /\ UNCHANGED <<call_vars, tid, parked, sets, walk>>

\* the same for two KeystorePerm values
Encode_KeystorePerm ==
    /\ conv.pc = "idle"
    /\ \E p \in KeystorePerms, q \in KeystorePerms :
          conv' = [pc |-> "encoded", catalog |-> "KeystorePerm", p |-> p, q |-> q,
                   code_p |-> KeystorePerm_as_i32(p), code_q |-> KeystorePerm_as_i32(q),
                   name_p |-> KeystorePerm_to_selinux(p),
                   name_q |-> KeystorePerm_to_selinux(q),
                   back |-> KeystorePerm_from(KeystorePerm_as_i32(p))]
    /\ UNCHANGED <<call_vars, tid, parked, sets, walk>>

\* the values are dropped
Drop_conv ==
    /\ conv.pc # "idle"
    /\ conv' = NoConv
    /\ UNCHANGED <<call_vars, tid, parked, sets, walk>>

NextCatalog ==
    \/ Decode_KeyPerm
    \/ Decode_KeystorePerm
    \/ Encode_KeyPerm
    \/ Encode_KeystorePerm
    \/ Drop_conv

SpecCatalog == Init /\ [][NextCatalog]_vars

----------------------------------------------------------------------------
(* Vocabulary of the properties.  These definitions restate the            *)
(* specification's terms on their own, without the operators above.        *)

\* the wire table of the key permissions: code and protocol name
WireKeyPerms ==
    { [perm |-> "None",        code |-> 0,    name |-> "none"],
      [perm |-> "Delete",      code |-> 1,    name |-> "delete"],
      [perm |-> "GenUniqueId", code |-> 2,    name |-> "gen_unique_id"],
      [perm |-> "GetInfo",     code |-> 4,    name |-> "get_info"],
      [perm |-> "Grant",       code |-> 8,    name |-> "grant"],
      [perm |-> "List",        code |-> 16,   name |-> "list"],
      [perm |-> "ManageBlob",  code |-> 32,   name |-> "manage_blob"],
      [perm |-> "Rebind",      code |-> 64,   name |-> "rebind"],
      [perm |-> "ReqForcedOp", code |-> 128,  name |-> "req_forced_op"],
      [perm |-> "Update",      code |-> 256,  name |-> "update"],
      [perm |-> "Use",         code |-> 512,  name |-> "use"],
      [perm |-> "UseDevId",    code |-> 1024, name |-> "use_dev_id"] }

\* the wire table of the service permissions
WireKeystorePerms ==
    { [perm |-> "None",     code |-> 0,  name |-> "none"],
      [perm |-> "AddAuth",  code |-> 1,  name |-> "add_auth"],
      [perm |-> "ClearNs",  code |-> 2,  name |-> "clear_ns"],
      [perm |-> "GetState", code |-> 4,  name |-> "get_state"],
      [perm |-> "Lock",     code |-> 8,  name |-> "lock"],
      [perm |-> "Reset",    code |-> 16, name |-> "reset"],
      [perm |-> "Unlock",   code |-> 32, name |-> "unlock"] }

WireEntry(table, p) == CHOOSE w \in table : w.perm = p

\* bit b (a power of two) is set in the non-negative v
HasBit(v, b) == (v \div b) % 2 = 1

\* every bit of b is set in a
BitsSubset(b, a) == \A i \in 0 .. 30 : HasBit(b, 2 ^ i) => HasBit(a, 2 ^ i)

\* the protocol names of the permissions contained in a permission set
NamesIn(v) == {w.name : w \in {x \in WireKeyPerms : x.code # 0 /\ HasBit(v, x.code)}}

Done(f) == pc = "done" /\ op = f

\* the calls made so far, by kind
ChecksMade == {i \in DOMAIN calls : calls[i].fn = "check_access"}
ResolutionsMade == {i \in DOMAIN calls : calls[i].fn \in {"getcon", "new", "lookup"}}
ResolutionFailed == \E i \in ResolutionsMade : calls[i].ret = "Err"

\* the target context the key's domain stands for
DomainTarget ==
    IF key.domain = "App" THEN OwnContext ELSE NamespaceContext(key.namespace_)

\* the target context was resolved by the backend call the domain asks for
TargetResolved ==
    /\ ~ResolutionFailed
    /\ IF key.domain = "App"
       THEN \E i \in ResolutionsMade : calls[i].fn = "getcon"
       ELSE \E i \in ResolutionsMade :
               calls[i].fn = "lookup" /\ calls[i].target = DomainTarget

\* what the backend answered the caller for a keystore2_key permission on
\* the domain's target, if it was asked
Answer(name) == policy[<<caller_ctx, DomainTarget, "keystore2_key", name>>]
Asked(name) == <<caller_ctx, DomainTarget, "keystore2_key", name>> \in DOMAIN policy
BackendAllows(name) == Asked(name) /\ Answer(name) = "Allow"
BackendRefuses(name) == Asked(name) /\ Answer(name) # "Allow"

\* the outcome that states a backend verdict
OutcomeOf(v) ==
    CASE v = "Allow"        -> "Allow"
      [] v = "Deny"         -> "PermissionDenied"
      [] v = "BackendError" -> "BackendError"

----------------------------------------------------------------------------
(* Properties of check_grant_permission.                                   *)

\* C1: check_grant_permission never returns Allow when the requested set
\* includes the grant permission; when the domain is App or SELinux, the
\* target context resolved and the backend allowed every access check it
\* was asked (the caller's own grant check among them), the result is
\* Deny(PermissionDenied).
C1_GrantNeverGranted ==
    (Done("check_grant_permission") /\ HasBit(access_vec, 8)) =>
        /\ result # "Allow"
        /\ ( /\ key.domain \in {"App", "SELinux"}
             /\ TargetResolved
             /\ BackendAllows("grant")
             /\ \A i \in ChecksMade : calls[i].ret = "Allow" )
           => result = "PermissionDenied"

\* a privileged caller asks to grant {delete, grant} on an SELinux key
C1_Witness ==
    /\ Done("check_grant_permission")
    /\ access_vec = 9
    /\ key.domain = "SELinux"
    /\ TargetResolved
    /\ BackendAllows("grant")
    /\ result = "PermissionDenied"

\* C2: check_grant_permission returns Allow if and only if the domain is
\* App or SELinux, the target context resolves, the backend allows the
\* caller "grant" on the target, the requested set does not include grant,
\* and the backend allows every permission of the requested set.  A call
\* that does not return Allow has met one of the refusals: another domain,
\* a failed resolution, grant requested, or a check the backend refused.
C2_GrantAllowIff ==
    Done("check_grant_permission") =>
        LET required == {"grant"} \cup NamesIn(access_vec)
        IN  /\ result = "Allow" <=>
                  /\ key.domain \in {"App", "SELinux"}
                  /\ TargetResolved
                  /\ ~HasBit(access_vec, 8)
                  /\ \A n \in required : BackendAllows(n)
            /\ result # "Allow" =>
                  \/ key.domain \notin {"App", "SELinux"}
                  \/ ResolutionFailed
                  \/ HasBit(access_vec, 8)
                  \/ \E n \in required : BackendRefuses(n)

\* a grant of {delete, get_info, manage_blob} is allowed
C2_Witness ==
    /\ Done("check_grant_permission")
    /\ access_vec = 37
    /\ result = "Allow"
    /\ Len(calls) = 5

\* C8: check_grant_permission with a domain other than App or SELinux
\* returns Error(SystemError) and makes no backend call.
C8_GrantOtherDomainSys ==
    (Done("check_grant_permission") /\ key.domain \in {"Grant", "KeyId", "Blob"}) =>
        /\ result = "SystemError"
        /\ calls = << >>
        /\ policy = << >>

\* a grant on a Blob key ends in SystemError
C8_Witness ==
    /\ Done("check_grant_permission")
    /\ key.domain = "Blob"
    /\ access_vec = 1
    /\ result = "SystemError"

\* C9 as stated: a requested set containing grant always ends in
\* Deny(PermissionDenied), whatever the domain and the backend's answers.
C9_AlwaysPermissionDenied ==
    (Done("check_grant_permission") /\ HasBit(access_vec, 8)) =>
        result = "PermissionDenied"

\* C9 amended: a requested set containing grant is never allowed; the
\* outcome is SystemError for a domain other than App or SELinux,
\* BackendError when the target resolution or the caller's grant check
\* fails, and Deny(PermissionDenied) otherwise; no permission of the set is
\* checked with the backend.
C9_GrantRequestOutcome ==
    (Done("check_grant_permission") /\ HasBit(access_vec, 8)) =>
        /\ result =
             IF key.domain \notin {"App", "SELinux"} THEN "SystemError"
             ELSE IF ResolutionFailed THEN "BackendError"
             ELSE IF Asked("grant") /\ Answer("grant") = "BackendError"
                  THEN "BackendError"
             ELSE "PermissionDenied"
        /\ Cardinality(ChecksMade) <= 1
        /\ \A i \in ChecksMade : calls[i].name = "grant"

\* grant is requested for a KeyId key, and for an App key whose grant check
\* fails in the backend
C9_Witness ==
    /\ Done("check_grant_permission")
    /\ HasBit(access_vec, 8)
    /\ \/ key.domain = "KeyId" /\ result = "SystemError"
       \/ key.domain = "App" /\ result = "BackendError" /\ ChecksMade # {}

----------------------------------------------------------------------------
(* Properties of check_key_permission and check_keystore_permission.       *)

\* C3: check_key_permission with domain Grant is decided locally, without
\* any backend call: with no access vector it returns Error(SystemError);
\* with an access vector it returns Allow iff the vector has every bit of
\* perm, and Deny(PermissionDenied) otherwise.
C3_GrantDomainLocal ==
    (Done("check_key_permission") /\ key.domain = "Grant") =>
        /\ calls = << >>
        /\ policy = << >>
        /\ result =
             IF access_vector = << >> THEN "SystemError"
             ELSE IF BitsSubset(WireEntry(WireKeyPerms, perm).code, access_vector[1])
                  THEN "Allow"
             ELSE "PermissionDenied"

\* grant is checked against a vector {delete, get_info} and denied
C3_Witness ==
    /\ Done("check_key_permission")
    /\ key.domain = "Grant"
    /\ perm = "Grant"
    /\ access_vector = <<5>>
    /\ result = "PermissionDenied"

\* C4: check_key_permission with domain Blob returns Allow only if the
\* backend allowed both manage_blob and perm on the context looked up for
\* key.namespace_; when the backend denies manage_blob the result is
\* Deny(PermissionDenied) and perm is not checked at all.
C4_BlobNeedsManageBlob ==
    (Done("check_key_permission") /\ key.domain = "Blob") =>
        /\ result = "Allow" =>
              /\ TargetResolved
              /\ BackendAllows("manage_blob")
              /\ BackendAllows(WireEntry(WireKeyPerms, perm).name)
        /\ (Asked("manage_blob") /\ Answer("manage_blob") = "Deny") =>
              /\ result = "PermissionDenied"
              /\ Cardinality(ChecksMade) = 1
        /\ \A i \in ChecksMade :
              /\ calls[i].source = caller_ctx
              /\ calls[i].target = NamespaceContext(key.namespace_)
              /\ calls[i].tclass = "keystore2_key"

\* delete on a Blob key is denied because manage_blob is denied
C4_Witness ==
    /\ Done("check_key_permission")
    /\ key.domain = "Blob"
    /\ perm = "Delete"
    /\ Asked("manage_blob")
    /\ Answer("manage_blob") = "Deny"
    /\ ~Asked("delete")
    /\ result = "PermissionDenied"

\* C5: check_key_permission with domain KeyId returns Error(SystemError)
\* for every permission, caller, namespace and access vector, and makes no
\* backend call.
C5_KeyIdSys ==
    (Done("check_key_permission") /\ key.domain = "KeyId") =>
        /\ result = "SystemError"
        /\ calls = << >>
        /\ policy = << >>

\* delete on a KeyId key with an access vector that has delete
C5_Witness ==
    /\ Done("check_key_permission")
    /\ key.domain = "KeyId"
    /\ perm = "Delete"
    /\ access_vector = <<1>>
    /\ result = "SystemError"

C7_KeystoreVerdict ==
    Done("check_keystore_permission") =>
        /\ Len(calls) >= 1
        /\ calls[1].fn = "getcon"
        /\ IF calls[1].ret = "Err"
           THEN /\ result = "BackendError"
                /\ Len(calls) = 1
           ELSE /\ Len(calls) = 2
                /\ calls[2] = Call("check_access", caller_ctx, OwnContext, "keystore2",
                                   WireEntry(WireKeystorePerms, perm).name, calls[2].ret)
                /\ result = OutcomeOf(calls[2].ret)

\* lock is denied to a caller by the backend
C7_Witness ==
    /\ Done("check_keystore_permission")
    /\ perm = "Lock"
    /\ Len(calls) = 2
    /\ calls[2].ret = "Deny"
    /\ result = "PermissionDenied"

----------------------------------------------------------------------------
(* Error kinds.                                                            *)

\* a check the function makes itself denies
LocalDeny ==
    \/ op = "check_grant_permission" /\ HasBit(access_vec, 8)
    \/ /\ op = "check_key_permission"
       /\ key.domain = "Grant"
       /\ access_vector # << >>
       /\ ~BitsSubset(WireEntry(WireKeyPerms, perm).code, access_vector[1])

\* the arguments break the caller's contract
SystemErrorSituation ==
    \/ op = "check_grant_permission" /\ key.domain \notin {"App", "SELinux"}
    \/ op = "check_key_permission" /\ key.domain = "KeyId"
    \/ op = "check_key_permission" /\ key.domain = "Grant" /\ access_vector = << >>

\* the backend failed: a context resolution or an access check
BackendFailed ==
    \/ ResolutionFailed
    \/ \E i \in ChecksMade : calls[i].ret = "BackendError"

----------------------------------------------------------------------------
(* Order of the access checks of check_grant_permission.                   *)

\* the protocol names of the permissions of a set, by ascending code,
\* from bit i on
RECURSIVE NamesAscending(_, _)
NamesAscending(v, i) ==
    IF i > 30 THEN << >>
    ELSE (IF HasBit(v, 2 ^ i) /\ \E w \in WireKeyPerms : w.code = 2 ^ i
          THEN <<(CHOOSE w \in WireKeyPerms : w.code = 2 ^ i).name>>
          ELSE << >>)
         \o NamesAscending(v, i + 1)

IsAccessCheck(c) == c.fn = "check_access"

\* the access checks made so far, in order
CheckSeq == SelectSeq(calls, IsAccessCheck)

IsPrefix(s, t) == Len(s) <= Len(t) /\ s = SubSeq(t, 1, Len(s))

\* C17: within one check_grant_permission call the access checks are a
\* prefix of "grant" followed by the requested permissions in ascending
\* code order; they start only after the target context is resolved; every
\* check but the last was allowed, so the call stops at the first check
\* that is not; and when the set includes grant at most one check is made.
C17_GrantCheckOrder ==
    op = "check_grant_permission" =>
        /\ IsPrefix([i \in DOMAIN CheckSeq |-> CheckSeq[i].name],
                    <<"grant">> \o NamesAscending(access_vec, 0))
        /\ \A i \in DOMAIN CheckSeq :
              /\ CheckSeq[i].source = caller_ctx
              /\ CheckSeq[i].target = DomainTarget
              /\ CheckSeq[i].tclass = "keystore2_key"
              /\ i < Len(CheckSeq) => CheckSeq[i].ret = "Allow"
        /\ CheckSeq # << >> =>
              /\ TargetResolved
              /\ \A i \in ResolutionsMade, j \in ChecksMade : i < j
        /\ (CheckSeq # << >> /\ CheckSeq[Len(CheckSeq)].ret # "Allow") =>
              pc = "done" /\ result # "Allow"
        /\ HasBit(access_vec, 8) => Len(CheckSeq) <= 1

\* a grant of {delete, get_info, list} stops at the denied get_info
C17_Witness ==
    /\ Done("check_grant_permission")
    /\ access_vec = 21
    /\ Len(CheckSeq) = 3
    /\ CheckSeq[3].name = "get_info"
    /\ CheckSeq[3].ret = "Deny"
    /\ result = "PermissionDenied"

----------------------------------------------------------------------------
(* The none permission.                                                    *)

\* C18: check_key_permission with domain Grant and perm none does not
\* return Allow, whatever access vector is supplied.
C18_NoneNeverGranted ==
    (Done("check_key_permission") /\ key.domain = "Grant" /\ perm = "None") =>
        result # "Allow"

----------------------------------------------------------------------------
(* KeyPermSet::includes on its own.                                        *)

\* the KeyPermSet values compared
ComparedSets ==
    {UnionOfCodes(S) :
        S \in SUBSET {KeyPermElements[i].name :
                         i \in {j \in DOMAIN KeyPermElements : j <= MaxSetPerms}}}

\* three sets and the results of includes between them
Compare_sets ==
    /\ sets.pc = "idle"
    /\ \E a \in ComparedSets, b \in ComparedSets, c \in ComparedSets :
          sets' = [pc |-> "compared", a |-> a, b |-> b, c |-> c,
                   ab |-> includes(a, b), ba |-> includes(b, a),
                   bc |-> includes(b, c), ac |-> includes(a, c),
                   aa |-> includes(a, a),
                   a_empty |-> includes(a, key_perm_set(<< >>))]
    /\ UNCHANGED <<call_vars, tid, parked, conv, walk>>

\* the values are dropped
Drop_sets ==
    /\ sets.pc # "idle"
    /\ sets' = NoSets
    /\ UNCHANGED <<call_vars, tid, parked, conv, walk>>

NextSets ==
    \/ Compare_sets
    \/ Drop_sets

SpecSets == Init /\ [][NextSets]_vars

----------------------------------------------------------------------------
(* key_perm_set! and the iteration over the set it builds.                 *)

\* the lists of KeyPerm values given to key_perm_set!
PermLists == UNION {[1 .. n -> KeyPerms] : n \in 0 .. MaxListLen}

\* let set = key_perm_set![...]; let i = set.into_iter();
Build_set ==
    /\ walk.pc = "idle"
    /\ \E list \in PermLists :
          walk' = [pc |-> "walking", list |-> list, vec |-> key_perm_set(list),
                   iter |-> IntoIter_new(key_perm_set(list)),
                   returned |-> << >>, positions |-> << >>, earlier |-> << >>]
    /\ UNCHANGED <<call_vars, tid, parked, conv, sets>>

\* i.next(): the item is appended to those returned, the position recorded
Walk_next ==
    /\ walk.pc = "walking"
    /\ Len(walk.returned) < MaxListLen + 2
    /\ LET r == IntoIter_next(walk.iter)
       IN  walk' = [walk EXCEPT !.iter = r.it,
                                !.returned = Append(@, r.item),
                                !.positions = Append(@, r.it.pos)]
    /\ UNCHANGED <<call_vars, tid, parked, conv, sets>>

\* set.into_iter() once more, after an iteration that has returned None
Walk_restart ==
    /\ walk.pc = "walking"
    /\ walk.earlier = << >>
    /\ walk.returned # << >>
    /\ walk.returned[Len(walk.returned)] = << >>
    /\ walk' = [walk EXCEPT !.iter = IntoIter_new(walk.vec),
                            !.returned = << >>, !.positions = << >>,
                            !.earlier = <<walk.returned>>]
    /\ UNCHANGED <<call_vars, tid, parked, conv, sets>>

\* the set and the iterator are dropped
Drop_walk ==
    /\ walk.pc # "idle"
    /\ walk' = NoWalk
    /\ UNCHANGED <<call_vars, tid, parked, conv, sets>>

NextIter ==
    \/ Build_set
    \/ Walk_next
    \/ Walk_restart
    \/ Drop_walk

SpecIter == Init /\ [][NextIter]_vars

----------------------------------------------------------------------------
(* Properties of the catalogs.                                             *)

WireTable(catalog) == IF catalog = "KeyPerm" THEN WireKeyPerms ELSE WireKeystorePerms

\* C11: decoding is total and fail-closed in both catalogs: a code that is
\* not the code of a defined entry decodes to the none sentinel, and every
\* code decodes to an entry of the catalog.
C11_DecodeFailClosed ==
    conv.pc = "decoded" =>
        LET table == WireTable(conv.catalog)
        IN  /\ conv.perm \in {w.perm : w \in table}
            /\ (\A w \in table : w.code # conv.code) =>
                  conv.perm = "None" /\ conv.name = "none"

\* 3, the sum of two defined bits, decodes to none in the key catalog
C11_Witness ==
    /\ conv.pc = "decoded"
    /\ conv.catalog = "KeyPerm"
    /\ conv.code = 3
    /\ conv.perm = "None"

\* C12: in each catalog decode(encode(p)) = p, the code and the name of an
\* entry are those of the wire table, the codes of the entries other than
\* none are powers of two, two different entries have different codes and
\* different names, and Use is rendered "use"; the key catalog has 11
\* entries and none, the service catalog 6 and none.
C12_CatalogBijection ==
    conv.pc = "encoded" =>
        LET w == WireEntry(WireTable(conv.catalog), conv.p)
        IN  /\ conv.back = conv.p
            /\ conv.code_p = w.code
            /\ conv.name_p = w.name
            /\ conv.p # "None" => \E i \in 0 .. 30 : conv.code_p = 2 ^ i
            /\ conv.p # conv.q =>
                  conv.code_p # conv.code_q /\ conv.name_p # conv.name_q
            /\ (conv.catalog = "KeyPerm" /\ conv.p = "Use") => conv.name_p = "use"
            /\ Cardinality(KeyPerms) = 12
            /\ Cardinality(KeystorePerms) = 7

\* Use and UseDevId of the key catalog
C12_Witness ==
    /\ conv.pc = "encoded"
    /\ conv.catalog = "KeyPerm"
    /\ conv.p = "Use"
    /\ conv.q = "UseDevId"
    /\ conv.code_p = 512
    /\ conv.name_p = "use"
    /\ conv.back = "Use"

----------------------------------------------------------------------------
(* Properties of KeyPermSet::includes.                                     *)

\* C13: A.includes(B) is true exactly when every bit of B is set in A; so
\* A.includes(A) and A.includes(empty) are true, A.includes(B) and
\* B.includes(C) give A.includes(C), and A.includes(B) is false when B has
\* a permission that A lacks.
C13_IncludesIsSuperset ==
    sets.pc = "compared" =>
        /\ sets.ab <=> BitsSubset(sets.b, sets.a)
        /\ sets.ba <=> BitsSubset(sets.a, sets.b)
        /\ sets.bc <=> BitsSubset(sets.c, sets.b)
        /\ sets.ac <=> BitsSubset(sets.c, sets.a)
        /\ sets.aa
        /\ sets.a_empty
        /\ (sets.ab /\ sets.bc) => sets.ac
        /\ (\E w \in WireKeyPerms :
               w.code # 0 /\ HasBit(sets.b, w.code) /\ ~HasBit(sets.a, w.code))
              => ~sets.ab

\* includes is not symmetric: {delete, get_info, grant} includes
\* {delete, grant} and is not included in it, while the overlapping
\* {gen_unique_id, grant} is not included in the first
C13_Witness ==
    /\ sets.pc = "compared"
    /\ sets.a = 13
    /\ sets.b = 9
    /\ sets.c = 10
    /\ sets.ab
    /\ ~sets.ba
    /\ ~sets.ac

----------------------------------------------------------------------------
(* Properties of key_perm_set! and the iteration.                          *)

\* the permissions of S other than none, by ascending wire code, from bit i
RECURSIVE PermsAscending(_, _)
PermsAscending(S, i) ==
    IF i > 30 THEN << >>
    ELSE (IF \E w \in WireKeyPerms : w.code = 2 ^ i /\ w.perm \in S
          THEN <<(CHOOSE w \in WireKeyPerms : w.code = 2 ^ i).perm>>
          ELSE << >>)
         \o PermsAscending(S, i + 1)

\* the permissions of the list the running iteration is over
Listed == {walk.list[i] : i \in DOMAIN walk.list}

DocExample == <<"Use", "ManageBlob", "Grant">>

C19_IterationFiniteRestartable ==
    walk.pc = "walking" =>
        /\ walk.iter.pos \in 0 .. 32
        /\ \A i \in DOMAIN walk.positions :
              /\ walk.positions[i] \in 0 .. 32
              /\ i > 1 => walk.positions[i - 1] <= walk.positions[i]
              /\ walk.returned[i] = << >> => walk.positions[i] = 32
        /\ \A i \in DOMAIN walk.returned :
              (i > 1 /\ walk.returned[i - 1] = << >>) => walk.returned[i] = << >>
        /\ walk.iter.vec = walk.vec
        /\ walk.earlier # << >> =>
              \A i \in DOMAIN walk.returned :
                 walk.returned[i] =
                     IF i <= Len(walk.earlier[1]) THEN walk.earlier[1][i] ELSE << >>

\* a second iteration that has returned the same two items and two None
C19_Witness ==
    /\ walk.pc = "walking"
    /\ walk.list = <<"Grant", "Delete">>
    /\ walk.earlier = <<<<<<"Delete">>, <<"Grant">>, << >>>>>>
    /\ walk.returned = <<<<"Delete">>, <<"Grant">>, << >>, << >>>>
    /\ walk.positions = <<1, 4, 32, 32>>

----------------------------------------------------------------------------
(* Properties of concurrent decision calls.                                *)

\* the calls of all threads: the running one and the parked ones
AllCalls == {ThisCall} \cup {parked[t] : t \in DOMAIN parked}

\* a resolution call (getcon, new, lookup) of call c failed
ResolutionFailedIn(c) ==
    \E i \in DOMAIN c.calls :
       c.calls[i].fn \in {"getcon", "new", "lookup"} /\ c.calls[i].ret = "Err"

\* the target context the key's domain stands for in call c
TargetOf(c) ==
    IF c.op = "check_keystore_permission" \/ c.key.domain = "App"
    THEN OwnContext
    ELSE NamespaceContext(c.key.namespace_)

\* what the policy answers call c for a permission name of a class
PolicyAnswer(c, tclass, name) ==
    LET q == <<c.caller_ctx, TargetOf(c), tclass, name>>
    IN  IF q \in DOMAIN policy THEN policy[q] ELSE "Unknown"

\* the outcome of checking the names one after the other until one is not
\* allowed
RECURSIVE ChainOutcome(_, _, _)
ChainOutcome(c, tclass, names) ==
    IF names = << >> THEN "Allow"
    ELSE LET v == PolicyAnswer(c, tclass, Head(names))
         IN  IF v = "Allow" THEN ChainOutcome(c, tclass, Tail(names))
             ELSE IF v = "Unknown" THEN "Unknown"
             ELSE OutcomeOf(v)

\* the outcome call c has when it runs alone against the policy, given the
\* results of its own resolution calls
AloneOutcome(c) ==
    IF c.op = "check_keystore_permission"
    THEN IF ResolutionFailedIn(c) THEN "BackendError"
         ELSE ChainOutcome(c, "keystore2",
                           <<WireEntry(WireKeystorePerms, c.perm).name>>)
    ELSE IF c.op = "check_grant_permission"
    THEN IF c.key.domain \notin {"App", "SELinux"} THEN "SystemError"
         ELSE IF ResolutionFailedIn(c) THEN "BackendError"
         ELSE IF PolicyAnswer(c, "keystore2_key", "grant") # "Allow"
              THEN ChainOutcome(c, "keystore2_key", <<"grant">>)
         ELSE IF HasBit(c.access_vec, 8) THEN "PermissionDenied"
         ELSE ChainOutcome(c, "keystore2_key", NamesAscending(c.access_vec, 0))
    ELSE IF c.key.domain = "KeyId" THEN "SystemError"
    ELSE IF c.key.domain = "Grant"
    THEN IF c.access_vector = << >> THEN "SystemError"
         ELSE IF BitsSubset(WireEntry(WireKeyPerms, c.perm).code, c.access_vector[1])
              THEN "Allow"
         ELSE "PermissionDenied"
    ELSE IF ResolutionFailedIn(c) THEN "BackendError"
    ELSE IF c.key.domain = "Blob"
    THEN ChainOutcome(c, "keystore2_key",
                      <<"manage_blob", WireEntry(WireKeyPerms, c.perm).name>>)
    ELSE ChainOutcome(c, "keystore2_key", <<WireEntry(WireKeyPerms, c.perm).name>>)

\* C16: decision calls do not interact: however the steps of the calls of
\* two threads interleave, a call that has returned has the outcome it has
\* when it runs alone against the same policy, and every access check of a
\* call is made for that call's own caller and target.
C16_CallsDoNotInteract ==
    \A c \in AllCalls :
       /\ c.pc = "done" => c.result = AloneOutcome(c)
       /\ \A i \in DOMAIN c.calls :
             c.calls[i].fn = "check_access" =>
                /\ c.calls[i].source = c.caller_ctx
                /\ c.calls[i].target = TargetOf(c)

\* thread 2 has returned from a check_key_permission call on an SELinux key
\* that was allowed, while the check_grant_permission call of thread 1 on
\* an App key is left inside its loop, two checks made
C16_Witness ==
    /\ tid = 2
    /\ pc = "done"
    /\ op = "check_key_permission"
    /\ key = [domain |-> "SELinux", namespace_ |-> 1]
    /\ result = "Allow"
    /\ 1 \in DOMAIN parked
    /\ parked[1].pc = "gr_loop"
    /\ parked[1].op = "check_grant_permission"
    /\ parked[1].key.domain = "App"
    /\ Len(parked[1].calls) = 3

====
